---- MODULE Spec2Model ----
(***************************************************************************)
(* Model of the West Coast Celebrants single page (src/src/Website.tsx,    *)
(* mounted by src/src/main.tsx): the theme hook with its localStorage      *)
(* slot, and the contact form with its mailto hand-off.                    *)
(*                                                                         *)
(* The page is single-threaded.  `pc` is the position of the one task      *)
(* that is running: "idle" between events, otherwise a point inside an     *)
(* event handler or inside React's render/effect phases.                   *)
(*                                                                         *)
(* A JavaScript string is modelled as a sequence of pieces whose           *)
(* concatenation is the string: one piece per character of a field value,  *)
(* one piece per percent-escape ("%26") and one piece per literal part of  *)
(* the link template.                                                      *)
(***************************************************************************)
EXTENDS Integers, Sequences, FiniteSets, TLC

\* Longest message typed character by character (the other field values
\* are drawn from fixed samples).
MaxMsgLen == 1

\* Most change events of the reduced-motion signal waiting to be delivered.
MaxPending == 1

\* Entries modelled of each list of expandable entries (the first ones).
MaxEntries == 1

\* Longest image list the gallery is rendered for.
MaxImages == 2

---------------------------------------------------------------------------
(* Characters and field values *)

\* A lone UTF-16 surrogate, e.g. "\uD800" pasted into a field.
HS == "<lone-surrogate>"

\* U+FFFD, what a lone surrogate becomes in a scalar value string.
RC == "<U+FFFD>"

Jane == <<"J", "a", "n", "e">>

\* A name made of characters that are reserved in a mailto query.
OddName == <<"A", " ", "&", "B", "=", "%", "?", "#">>

JaneMail == <<"j", "a", "n", "e", "@", "e", "x", "a", "m", "p", "l", "e", ".", "c", "o", "m">>

LegalWedding == <<"L", "e", "g", "a", "l", " ", "W", "e", "d", "d", "i", "n", "g">>

SomeDate == <<"2", "0", "2", "6", "-", "1", "1", "-", "0", "2">>

Hello == <<"H", "e", "l", "l", "o">>

\* Characters the message is typed from.
MsgAlphabet == {"&", HS}

\* All strings over alphabet A of length at most n.
RECURSIVE Strs(_, _)
Strs(A, n) ==
  IF n = 0 THEN {<<>>}
  ELSE LET shorter == Strs(A, n - 1)
       IN  shorter \cup {Append(s, c) : s \in shorter, c \in A}

FieldNames == {"company", "name", "contact", "type", "date", "message"}

\* The values the user (or a bot, for the hidden `company` field) can put
\* in each control.  The select offers "" (disabled placeholder) and the
\* ceremony types; the date input offers "" or a date.
Values ==
  [company |-> {<<>>, <<"b", "o", "t">>},
   name    |-> {<<>>, Jane, OddName},
   contact |-> {<<>>, JaneMail},
   type    |-> {<<>>, LegalWedding},
   date    |-> {<<>>, SomeDate},
   message |-> {Hello} \cup Strs(MsgAlphabet, MaxMsgLen)]

\* Every control at its default value: what a fresh render shows and what
\* form.reset() restores (no control has a default other than "").
EmptyFields == [f \in FieldNames |-> <<>>]

---------------------------------------------------------------------------
(* encodeURIComponent and the composed link *)

\* The escapes encodeURIComponent produces for the reserved characters that
\* occur in the field values (UTF-8 bytes, each as %XX).
Escapes ==
  (" " :> "%20") @@ ("&" :> "%26") @@ ("=" :> "%3D") @@ ("%" :> "%25") @@
  ("?" :> "%3F") @@ ("#" :> "%23") @@ ("@" :> "%40") @@ (RC :> "%EF%BF%BD")

\* Mutant of EncodeChar: only the space is escaped.
EncodeCharSpaceOnly(c) == IF c = " " THEN "%20" ELSE c

\* encodeURIComponent leaves A-Z a-z 0-9 - _ . ! ~ * ' ( ) alone and
\* escapes every other character.
EncodeChar(c) == IF c \in DOMAIN Escapes THEN Escapes[c] ELSE c

\* encodeURIComponent throws URIError when its argument holds a lone
\* surrogate.
Throws(s) == \E i \in DOMAIN s : s[i] = HS

encodeURIComponent(s) == [i \in DOMAIN s |-> EncodeChar(s[i])]

\* Conversion to a scalar value string: each lone surrogate becomes U+FFFD.
ToUSV(s) == [i \in DOMAIN s |-> IF s[i] = HS THEN RC ELSE s[i]]

\* new FormData(form), read back through data.get(f) ?? "" and String().
\* Engines that build the entry list from scalar value strings replace
\* lone surrogates (usv = TRUE); the others hand the value over as typed.
FormDataOf(fs, usv) == [f \in FieldNames |-> IF usv THEN ToUSV(fs[f]) ELSE fs[f]]

NoData == [f \in FieldNames |-> <<>>]

Address == "westcoastcelebrants@gmail.com"

\* The template literal assigned to window.location.href.
MailtoLink(d) ==
  <<"mailto:", Address, "?", "subject", "=", "Enquiry from ">>
    \o encodeURIComponent(d.name)
    \o <<"&", "body", "=", "Contact: ">> \o encodeURIComponent(d.contact)
    \o <<"%0A", "Type: ">> \o encodeURIComponent(d.type)
    \o <<"%0A", "Date: ">> \o encodeURIComponent(d.date)
    \o <<"%0A", "%0A">> \o encodeURIComponent(d.message)

\* Some field of the submission makes encodeURIComponent throw.
ComposeThrows(d) ==
  \E f \in {"name", "contact", "type", "date", "message"} : Throws(d[f])

---------------------------------------------------------------------------
(* State *)

VARIABLES
  storage,     \* localStorage slot 'wcc-theme': "absent" or the stored string
  theme,       \* useTheme's state, a queued setTheme update included
  rendered,    \* the theme the committed DOM was rendered with (isDark)
  lastChoice,  \* the theme the user last asked for, "none" before any toggle
  status,      \* ContactForm's state, as last passed to setStatus
  fields,      \* the values of the form controls
  data,        \* onSubmit's FormData snapshot (NoData outside the handler)
  nav,         \* navigations requested and not yet taken up by the browser
  menuOpen,    \* the menuOpen state, a queued setMenuOpen update included
  overflow,    \* document.body.style.overflow
  mql,         \* the system signal: (prefers-reduced-motion: reduce) matches
  changes,     \* change events of the signal queued for the listener
  prefersReduced,  \* usePrefersReducedMotion's state
  scrollBehavior,  \* document.documentElement.style.scrollBehavior
  dom,         \* what goTo acts on: last scrollIntoView, focus, tabindex, hash
  site,        \* the link or button whose click handler is running
  open,        \* the <details> entries that are open
  images,      \* the image list passed to Gallery
  gallery,     \* what Gallery rendered at the last commit
  head,        \* the JSON-LD script elements the page has in document.head
  ldScript,    \* the element `s` the live JSON-LD effect holds (0: none)
  pc           \* position of the running task

vars ==
  <<storage, theme, rendered, lastChoice, status, fields, data, nav,
    menuOpen, overflow, mql, changes, prefersReduced, scrollBehavior,
    dom, site, open, images, gallery, head, ldScript, pc>>

themeVars == <<storage, theme, rendered, lastChoice>>

formVars == <<status, fields, data, nav>>

menuVars == <<menuOpen, overflow>>

motionVars == <<mql, changes, prefersReduced, scrollBehavior>>

galleryVars == <<images, gallery>>

headVars == <<head, ldScript>>

pageVars == <<menuVars, motionVars, dom, site, open>>

\* What the slot can hold when the page loads: nothing, a value this page
\* wrote, or anything else written under the same key.
StorageValues == {"absent", "light", "dark", "Dark", ""}

Themes == {"light", "dark"}

Statuses == {"idle", "sending", "ok", "error"}

---------------------------------------------------------------------------
(* The document: sections, goTo, and the links and buttons that call it *)

\* The ids of the <section> elements the page renders.
SectionIds ==
  {"home", "about", "services", "gallery", "how-it-works", "weddings",
   "vow-renewals", "naming", "celebration-of-life", "your-funeral", "faq",
   "privacy", "contact"}

\* The sections rendered by the Section component, which carry tabIndex -1.
\* The hero section "home" is written out by hand, without a tabindex.
FocusableSections == SectionIds \ {"home"}

\* Every id getElementById can find.
ElementIds == SectionIds \cup {"main"}

NoElement == "<none>"

\* Before goTo has run: nothing scrolled into view, focus on the body, the
\* tabindex attributes of the markup, no fragment.
InitialDom ==
  [scrollTarget |-> NoElement,
   scrollMode   |-> "",
   focused      |-> NoElement,
   tabindexed   |-> FocusableSections,
   hash         |-> <<>>]

\* s.replace(/^#/, ""), which is also what the location.hash setter does
\* to the value assigned: one leading "#" is dropped.
StripHash(s) == IF s # <<>> /\ s[1] = "#" THEN Tail(s) ELSE s

\* document.getElementById: the element whose id is the string t, or none.
GetElementById(t) ==
  IF Len(t) = 1 /\ t[1] \in ElementIds THEN t[1] ELSE NoElement

\* The behavior goTo passes to scrollIntoView.
ScrollOption == "smooth"

\* Mutant of GoToResult: the leading "#" is not removed before the lookup.
GoToResultNoStrip(d, id) ==
  LET el == GetElementById(id)
  IN  IF el # NoElement
        THEN [d EXCEPT !.scrollTarget = el,
                       !.scrollMode = ScrollOption,
                       !.tabindexed = @ \cup {el},
                       !.focused = el]
        ELSE [d EXCEPT !.hash = StripHash(id)]

\* Mutant of GoToResult: no fallback when the element is missing.
GoToResultNoFallback(d, id) ==
  LET el == GetElementById(StripHash(id))
  IN  IF el # NoElement
        THEN [d EXCEPT !.scrollTarget = el,
                       !.scrollMode = ScrollOption,
                       !.tabindexed = @ \cup {el},
                       !.focused = el]
        ELSE d

\* goTo(id) applied to the document state d.
GoToResult(d, id) ==
  LET el == GetElementById(StripHash(id))
  IN  IF el # NoElement
        THEN [d EXCEPT !.scrollTarget = el,
                       !.scrollMode = ScrollOption,
                       !.tabindexed = @ \cup {el},
                       !.focused = el]
        ELSE [d EXCEPT !.hash = StripHash(id)]

\* Card -> section anchors.
serviceToId ==
  (<<"Legal Weddings">> :> "weddings") @@
  (<<"Commitment Weddings">> :> "weddings") @@
  (<<"Elopement Weddings">> :> "weddings") @@
  (<<"Naming", " Ceremonies">> :> "naming") @@
  (<<"Vow Renewals">> :> "vow-renewals") @@
  (<<"Celebration of Life">> :> "celebration-of-life")

\* The titles of the service cards.
CardTitles ==
  {<<"Legal Weddings">>, <<"Commitment Weddings">>, <<"Elopement Weddings">>,
   <<"Naming", " Ceremonies">>, <<"Vow Renewals">>, <<"Celebration of Life">>}

\* The labels of the services divider list.
ListLabels ==
  {<<"Legal Weddings">>, <<"Commitment Weddings">>, <<"Elopement Weddings">>,
   <<"Naming", " Ceremonies">>, <<"Vow Renewals">>,
   <<"Celebration of Life", " Ceremonies">>}

\* label.replace(" Ceremonies", ""): the first occurrence is removed.
ListKey(label) ==
  LET is == {i \in DOMAIN label : label[i] = " Ceremonies"}
  IN  IF is = {} THEN label
      ELSE LET i == CHOOSE j \in is : \A k \in is : j <= k
           IN  SubSeq(label, 1, i - 1) \o SubSeq(label, i + 1, Len(label))

\* Mutant of ServiceHref: the fallback names a section that does not exist.
ServiceHrefBadFallback(key) ==
  <<"#", IF key \in DOMAIN serviceToId THEN serviceToId[key] ELSE "service">>

\* `#${serviceToId[key] ?? "services"}`
ServiceHref(key) ==
  <<"#", IF key \in DOMAIN serviceToId THEN serviceToId[key] ELSE "services">>

\* The hrefs of the primary nav and of the mobile menu (the same ten).
NavHrefs ==
  {<<"#", t>> : t \in {"about", "services", "gallery", "how-it-works",
                       "weddings", "vow-renewals", "naming",
                       "celebration-of-life", "privacy", "contact"}}

\* Every element of the page whose click handler calls goTo: where it is
\* and the string it passes.
Sites ==
  {[where |-> "logo", href |-> <<"#", "home">>]}
    \cup {[where |-> "nav", href |-> h] : h \in NavHrefs}
    \cup {[where |-> "header-cta", href |-> <<"#", "contact">>]}
    \cup {[where |-> "menu", href |-> h] : h \in NavHrefs}
    \cup {[where |-> "hero-cta", href |-> <<"#", t>>] : t \in {"contact", "services"}}
    \cup {[where |-> "card", href |-> ServiceHref(t)] : t \in CardTitles}
    \cup {[where |-> "list", href |-> ServiceHref(ListKey(l))] : l \in ListLabels}
    \cup {[where |-> "contact-link", href |-> <<"#", "how-it-works">>]}

NoSite == [where |-> "", href |-> <<>>]

\* Mutant of ClosesMenu: NavLink never calls its onClick prop.
ClosesMenuNever(s) == FALSE

\* Only the NavLinks of the mobile menu are given onClick, which is
\* () => setMenuOpen(false).
ClosesMenu(s) == s.where = "menu"

\* The lists of expandable entries and how many entries each has.
EntryCount ==
  [weddings |-> 17, naming |-> 9, celebration |-> 5, faq |-> 3]

\* The entries modelled: the first MaxEntries of each list.
Entries ==
  {e \in (DOMAIN EntryCount) \X (1..MaxEntries) : e[2] <= EntryCount[e[1]]}

\* Mutant of DetailsToggle: opening an entry closes the others.
DetailsToggleAccordion(o, e) == IF e \in o THEN o \ {e} ELSE {e}

\* Mutant of DetailsToggle: a click on the summary only ever opens.
DetailsToggleOpenOnly(o, e) == o \cup {e}

\* A click on the summary of entry e, o being the open entries: a native
\* <details> without name flips its own open attribute.
DetailsToggle(o, e) == IF e \in o THEN o \ {e} ELSE o \cup {e}

---------------------------------------------------------------------------
(* Gallery *)

\* width={img.w ?? 640}
DefaultWidth == 640

\* height={img.h ?? 480}
DefaultHeight == 480

\* The list the page passes to Gallery: no entry gives w or h.
galleryImages ==
  <<[src |-> "/gallery/01.jpg", alt |-> "Cliffside elopement on the west coast"],
    [src |-> "/gallery/02.jpg", alt |-> "Candle lighting during ceremony"],
    [src |-> "/gallery/03.jpg", alt |-> "Celtic handfasting ribbons"],
    [src |-> "/gallery/04.jpg", alt |-> "Vow renewal by the lake"]>>

\* Mutant of OrDefault: img.w || 640, which also replaces a supplied 0.
OrDefaultFalsy(img, f, default) ==
  IF f \in DOMAIN img /\ img[f] # 0 THEN img[f] ELSE default

\* img.w ?? 640: the optional property f of img, or the default when the
\* image has none.
OrDefault(img, f, default) ==
  IF f \in DOMAIN img THEN img[f] ELSE default

\* The ring colours of a link, the part of its className that depends on
\* isDark.
RingClass(isDark) ==
  IF isDark THEN "ring-slate-800 hover:ring-slate-600"
            ELSE "ring-slate-200 hover:ring-slate-400"

\* The <a> Gallery renders for one image, with the <img> inside it.
GalleryLink(isDark, img) ==
  [href   |-> img.src,
   target |-> "_blank",
   rel    |-> "noreferrer",
   ring   |-> RingClass(isDark),
   img    |-> [src |-> img.src, alt |-> img.alt, loading |-> "lazy",
               width  |-> OrDefault(img, "w", DefaultWidth),
               height |-> OrDefault(img, "h", DefaultHeight)]]

\* images.map(...): one link per image, in the order of the list.
Gallery(isDark, imgs) == [i \in DOMAIN imgs |-> GalleryLink(isDark, imgs[i])]

\* Image records Gallery is applied to: two sources, each with and without
\* w (0 or 800) and h (600).
ImageSources == {"/gallery/01.jpg", "/gallery/02.jpg"}

WithOptional(S, f, vals) == S \cup {(f :> v) @@ r : r \in S, v \in vals}

ImageRecords ==
  WithOptional(
    WithOptional({[src |-> src, alt |-> "Candle lighting during ceremony"] :
                    src \in ImageSources},
                 "w", {0, 800}),
    "h", {600})

ImageLists == Strs(ImageRecords, MaxImages)

---------------------------------------------------------------------------
(* Structured metadata: the JSON-LD effect *)

\* document.head.appendChild(s), s being a script element just created.
AppendScript(h, s) == h \cup {s}

\* Mutant of RemoveScript: the cleanup leaves the element in the head.
RemoveScriptNoop(h, s) == h

\* s.remove() in the effect's cleanup.
RemoveScript(h, s) == h \ {s}

\* document.createElement("script"): an element that is not in the head.
NewScript(h) == CHOOSE n \in 1..(Cardinality(h) + 1) : n \notin h

\* One run of the JSON-LD effect on head h: the head after it and the
\* element its cleanup holds.
JsonLdRun(h) ==
  LET s == NewScript(h) IN [head |-> AppendScript(h, s), s |-> s]

\* The cleanup of a run r of the effect.
JsonLdCleanup(r) == [head |-> RemoveScript(r.head, r.s), s |-> 0]

\* The effect at mount.  Under <StrictMode> a development build runs it,
\* cleans it up and runs it again; a production build runs it once.
JsonLdMount(h, strict) ==
  IF strict THEN JsonLdRun(JsonLdCleanup(JsonLdRun(h)).head) ELSE JsonLdRun(h)

---------------------------------------------------------------------------
(* Theme: useTheme and the three toggle buttons *)

\* Mutant of InitialTheme: dark unless the slot says light.
InitialThemeDarkDefault(saved) == IF saved = "light" THEN "light" ELSE "dark"

\* The lazy initializer of useState: localStorage.getItem('wcc-theme'),
\* which is null when the slot is absent.
InitialTheme(saved) == IF saved = "dark" THEN "dark" ELSE "light"

\* Mutant of PersistedValue: the isDark flag is stored instead of the theme.
PersistedValueAsFlag(t) == IF t = "dark" THEN "true" ELSE "false"

\* The value the persist effect writes for theme t.
PersistedValue(t) == t

\* onClick={() => setTheme(isDark ? "light" : "dark")}: isDark is the one
\* of the render the button belongs to.
ToggleTarget(isDark) == IF isDark THEN "light" ELSE "dark"

Init ==
  /\ storage \in StorageValues
  /\ theme = InitialTheme(storage)
  /\ rendered = theme
  /\ lastChoice = "none"
  /\ status = "idle"
  /\ fields = EmptyFields
  /\ data = NoData
  /\ nav = <<>>
  /\ menuOpen = FALSE
  /\ overflow = ""
  /\ mql \in BOOLEAN
  /\ changes = 0
  /\ prefersReduced = FALSE
  /\ scrollBehavior = ""
  /\ dom = InitialDom
  /\ site = NoSite
  /\ open = {}
  /\ images = galleryImages
  /\ gallery = Gallery(rendered = "dark", images)
  /\ head = {}
  /\ ldScript = 0
  /\ pc = "mount"

\* The value the scrollBehavior effect writes.
ScrollBehaviorFor(reduced) == IF reduced THEN "auto" ELSE "smooth"

\* The value the overflow effect writes.
OverflowFor(isOpen) == IF isOpen THEN "hidden" ELSE ""

\* Mutant of MountEffects: the persist effect does not run at mount.
MountEffectsNoPersist ==
  /\ pc = "mount"
  /\ prefersReduced' = mql
  /\ scrollBehavior' = ScrollBehaviorFor(prefersReduced')
  /\ overflow' = OverflowFor(menuOpen)
  /\ \E strict \in BOOLEAN :
       /\ head' = JsonLdMount(head, strict).head
       /\ ldScript' = JsonLdMount(head, strict).s
  /\ pc' = "idle"
  /\ UNCHANGED <<storage, theme, rendered, lastChoice, formVars, menuOpen,
                 mql, changes, dom, site, open, galleryVars>>

\* The effects of the first render, with the re-render they cause: the
\* reduced-motion hook reads the signal and starts listening, the persist
\* effect writes the initial theme to the slot, the scrollBehavior and
\* overflow effects write their styles and the JSON-LD effect adds its
\* script (in either build, see JsonLdMount).
MountEffects ==
  /\ pc = "mount"
  /\ storage' = PersistedValue(theme)
  /\ prefersReduced' = mql
  /\ scrollBehavior' = ScrollBehaviorFor(prefersReduced')
  /\ overflow' = OverflowFor(menuOpen)
  /\ \E strict \in BOOLEAN :
       /\ head' = JsonLdMount(head, strict).head
       /\ ldScript' = JsonLdMount(head, strict).s
  /\ pc' = "idle"
  /\ UNCHANGED <<theme, rendered, lastChoice, formVars, menuOpen, mql,
                 changes, dom, site, open, galleryVars>>

\* Mutant of ToggleTheme: the handler also closes the mobile menu.
ToggleThemeClosesMenu ==
  /\ pc = "idle"
  /\ theme' = ToggleTarget(rendered = "dark")
  /\ lastChoice' = theme'
  /\ menuOpen' = FALSE
  /\ pc' = "render"
  /\ UNCHANGED <<storage, rendered, formVars, overflow, motionVars, dom, site,
                 open, galleryVars, headVars>>

\* A click on one of the theme buttons: the handler queues the update.
ToggleTheme ==
  /\ pc = "idle"
  /\ theme' = ToggleTarget(rendered = "dark")
  /\ lastChoice' = theme'
  /\ pc' = "render"
  /\ UNCHANGED <<storage, rendered, formVars, pageVars, galleryVars, headVars>>

\* React re-renders and commits the DOM with the new theme (isDark is
\* passed down to every component, Gallery included).
RenderTheme ==
  /\ pc = "render"
  /\ rendered' = theme
  /\ gallery' = Gallery(rendered' = "dark", images)
  /\ pc' = "effects"
  /\ UNCHANGED <<storage, theme, lastChoice, formVars, pageVars, images, headVars>>

\* Mutant of ThemeEffect: the effect does not run on updates.
ThemeEffectSkipsWrite ==
  /\ pc = "effects"
  /\ pc' = "idle"
  /\ UNCHANGED <<storage, theme, rendered, lastChoice, formVars, pageVars, galleryVars, headVars>>

\* The persist effect ([theme] changed) runs after the commit, in the same
\* task as the click that caused it.
ThemeEffect ==
  /\ pc = "effects"
  /\ storage' = PersistedValue(theme)
  /\ pc' = "idle"
  /\ UNCHANGED <<theme, rendered, lastChoice, formVars, pageVars, galleryVars, headVars>>

\* The user reloads: a new document, new component state, the same
\* localStorage.
Reload ==
  /\ pc \in {"mount", "idle"}
  /\ theme' = InitialTheme(storage)
  /\ rendered' = theme'
  /\ status' = "idle"
  /\ fields' = EmptyFields
  /\ data' = NoData
  /\ nav' = <<>>
  /\ menuOpen' = FALSE
  /\ overflow' = ""
  /\ changes' = 0
  /\ prefersReduced' = FALSE
  /\ scrollBehavior' = ""
  /\ dom' = [InitialDom EXCEPT !.hash = dom.hash]
  /\ site' = NoSite
  /\ open' = {}
  /\ gallery' = Gallery(rendered' = "dark", images)
  /\ head' = {}
  /\ ldScript' = 0
  /\ pc' = "mount"
  /\ UNCHANGED <<storage, lastChoice, mql, images>>

---------------------------------------------------------------------------
(* Contact form: the controls and ContactForm.onSubmit *)

\* The user (or a bot) changes the value of one control.
EditField ==
  /\ pc = "idle"
  /\ \E f \in FieldNames : \E v \in Values[f] :
       /\ v # fields[f]
       /\ fields' = [fields EXCEPT ![f] = v]
  /\ UNCHANGED <<pageVars, galleryVars, headVars, themeVars, status, data, nav, pc>>

\* The form is submitted (the button is disabled while the rendered status
\* is "sending"; noValidate: the browser does not check `required`).  The
\* handler prevents the default and takes its FormData snapshot.
Submit ==
  /\ pc = "idle"
  /\ status # "sending"
  /\ \E usv \in BOOLEAN : data' = FormDataOf(fields, usv)
  /\ pc' = "submit"
  /\ UNCHANGED <<pageVars, galleryVars, headVars, themeVars, status, fields, nav>>

\* Mutant of Honeypot: the silent abort puts the status back to idle.
HoneypotResetsIdle ==
  /\ pc = "submit"
  /\ IF data.company # <<>>
       THEN /\ pc' = "idle"
            /\ data' = NoData
            /\ status' = "idle"
       ELSE /\ status' = "sending"
            /\ pc' = "try"
            /\ UNCHANGED data
  /\ UNCHANGED <<pageVars, galleryVars, headVars, themeVars, fields, nav>>

\* Mutant of Honeypot: the honeypot is checked after setStatus("sending").
HoneypotAfterSending ==
  /\ pc = "submit"
  /\ status' = "sending"
  /\ IF data.company # <<>>
       THEN /\ pc' = "idle"
            /\ data' = NoData
       ELSE /\ pc' = "try"
            /\ UNCHANGED data
  /\ UNCHANGED <<pageVars, galleryVars, headVars, themeVars, fields, nav>>

\* if (data.get("company")) return;  else setStatus("sending").
Honeypot ==
  /\ pc = "submit"
  /\ IF data.company # <<>>
       THEN /\ pc' = "idle"
            /\ data' = NoData
            /\ UNCHANGED status
       ELSE /\ status' = "sending"
            /\ pc' = "try"
            /\ UNCHANGED data
  /\ UNCHANGED <<pageVars, galleryVars, headVars, themeVars, fields, nav>>

\* Mutant of Compose: the link is built but never assigned to the location.
ComposeNoDispatch ==
  /\ pc = "try"
  /\ IF ComposeThrows(data)
       THEN pc' = "catch"
       ELSE pc' = "dispatched"
  /\ UNCHANGED <<pageVars, galleryVars, headVars, themeVars, status, fields, data, nav>>

\* The try block up to the assignment to window.location.href: the five
\* values are encoded and, if none throws, the link is dispatched.
Compose ==
  /\ pc = "try"
  /\ IF ComposeThrows(data)
       THEN /\ pc' = "catch"
            /\ UNCHANGED nav
       ELSE /\ nav' = Append(nav, MailtoLink(data))
            /\ pc' = "dispatched"
  /\ UNCHANGED <<pageVars, galleryVars, headVars, themeVars, status, fields, data>>

\* Mutant of Succeed: form.reset() is missing.
SucceedKeepsFields ==
  /\ pc = "dispatched"
  /\ status' = "ok"
  /\ data' = NoData
  /\ pc' = "handoff"
  /\ UNCHANGED <<pageVars, galleryVars, headVars, themeVars, fields, nav>>

\* setStatus("ok"); form.reset(); and the handler returns.
Succeed ==
  /\ pc = "dispatched"
  /\ status' = "ok"
  /\ fields' = EmptyFields
  /\ data' = NoData
  /\ pc' = "handoff"
  /\ UNCHANGED <<pageVars, galleryVars, headVars, themeVars, nav>>

\* Mutant of Catch: the exception is swallowed without setStatus.
CatchSilently ==
  /\ pc = "catch"
  /\ data' = NoData
  /\ pc' = "idle"
  /\ UNCHANGED <<pageVars, galleryVars, headVars, themeVars, status, fields, nav>>

\* Mutant of Catch: the catch block also resets the form.
CatchResetsForm ==
  /\ pc = "catch"
  /\ status' = "error"
  /\ fields' = EmptyFields
  /\ data' = NoData
  /\ pc' = "idle"
  /\ UNCHANGED <<pageVars, galleryVars, headVars, themeVars, nav>>

\* catch { setStatus("error"); } and the handler returns.
Catch ==
  /\ pc = "catch"
  /\ status' = "error"
  /\ data' = NoData
  /\ pc' = "idle"
  /\ UNCHANGED <<pageVars, galleryVars, headVars, themeVars, fields, nav>>

\* After the handler's task the browser takes up the requested navigation:
\* a mailto link goes to the mail client and the page stays.
HandOff ==
  /\ pc = "handoff"
  /\ nav' = <<>>
  /\ pc' = "idle"
  /\ UNCHANGED <<pageVars, galleryVars, headVars, themeVars, status, fields, data>>

---------------------------------------------------------------------------
(* Mobile menu, navigation clicks, reduced motion, expandable entries *)

\* onClick={() => setMenuOpen((v) => !v)} on the menu button.
ToggleMenu ==
  /\ pc = "idle"
  /\ menuOpen' = ~menuOpen
  /\ pc' = "menuEffect"
  /\ UNCHANGED <<themeVars, formVars, overflow, motionVars, dom, site, open, galleryVars, headVars>>

\* Mutant of MenuEffect: closing the menu does not restore the overflow.
MenuEffectNeverRestores ==
  /\ pc = "menuEffect"
  /\ overflow' = IF menuOpen THEN "hidden" ELSE overflow
  /\ pc' = "idle"
  /\ UNCHANGED <<themeVars, formVars, menuOpen, motionVars, dom, site, open, galleryVars, headVars>>

\* The re-render after menuOpen changed and its effect ([menuOpen]).
MenuEffect ==
  /\ pc = "menuEffect"
  /\ overflow' = OverflowFor(menuOpen)
  /\ pc' = "idle"
  /\ UNCHANGED <<themeVars, formVars, menuOpen, motionVars, dom, site, open, galleryVars, headVars>>

\* A click on a link or button that navigates within the page.  The links
\* of the mobile menu exist only while the menu is rendered.
Click ==
  /\ pc = "idle"
  /\ \E s \in Sites :
       /\ s.where = "menu" => menuOpen
       /\ site' = s
  /\ pc' = "goTo"
  /\ UNCHANGED <<themeVars, formVars, menuVars, motionVars, dom, open, galleryVars, headVars>>

\* NavLink calls goTo (and its onClick prop) only for hrefs starting "#".
Handles(s) ==
  s.where \in {"nav", "menu"} => (s.href # <<>> /\ s.href[1] = "#")

\* The click handler runs: goTo(href) and, for a NavLink that was given
\* one, the onClick prop.
GoToStep ==
  /\ pc = "goTo"
  /\ dom' = IF Handles(site) THEN GoToResult(dom, site.href) ELSE dom
  /\ menuOpen' = IF Handles(site) /\ ClosesMenu(site) THEN FALSE ELSE menuOpen
  /\ site' = NoSite
  /\ pc' = IF menuOpen' # menuOpen THEN "menuEffect" ELSE "idle"
  /\ UNCHANGED <<themeVars, formVars, overflow, motionVars, open, galleryVars, headVars>>

\* The user changes the system setting.  Once the page has mounted its
\* listener, each change queues a change event.
SignalChange ==
  /\ pc \in {"mount", "idle"}
  /\ pc = "idle" => changes < MaxPending
  /\ mql' = ~mql
  /\ changes' = IF pc = "idle" THEN changes + 1 ELSE changes
  /\ UNCHANGED <<themeVars, formVars, menuVars, prefersReduced,
                 scrollBehavior, dom, site, open, pc, galleryVars, headVars>>

\* Mutant of ListenerValue: the listener keeps the value read at startup.
ListenerValueStale(matches, current) == current

\* onChange = () => setPrefersReduced(mql.matches)
ListenerValue(matches, current) == matches

\* A queued change event is delivered to onChange.
ChangeEvent ==
  /\ pc = "idle"
  /\ changes > 0
  /\ changes' = changes - 1
  /\ prefersReduced' = ListenerValue(mql, prefersReduced)
  /\ pc' = IF prefersReduced' # prefersReduced THEN "motionEffect" ELSE "idle"
  /\ UNCHANGED <<themeVars, formVars, menuVars, mql, scrollBehavior, dom,
                 site, open, galleryVars, headVars>>

\* The re-render after prefersReduced changed and its effect
\* ([prefersReduced]).
MotionEffect ==
  /\ pc = "motionEffect"
  /\ scrollBehavior' = ScrollBehaviorFor(prefersReduced)
  /\ pc' = "idle"
  /\ UNCHANGED <<themeVars, formVars, menuVars, mql, changes, prefersReduced,
                 dom, site, open, galleryVars, headVars>>

\* A click on the summary of an expandable entry.
ToggleEntry ==
  /\ pc = "idle"
  /\ \E e \in Entries : open' = DetailsToggle(open, e)
  /\ UNCHANGED <<themeVars, formVars, menuVars, motionVars, dom, site, pc, galleryVars, headVars>>

NextNav ==
  \/ MountEffects
  \/ Reload
  \/ ToggleMenu
  \/ MenuEffect
  \/ Click
  \/ GoToStep
  \/ SignalChange
  \/ ChangeEvent
  \/ MotionEffect

\* The page under menu toggles, navigation clicks, changes of the
\* reduced-motion signal and reloads.
SpecNav == Init /\ [][NextNav]_vars

NextDetails ==
  \/ MountEffects
  \/ Reload
  \/ ToggleEntry
  \/ ToggleTheme
  \/ RenderTheme
  \/ ThemeEffect
  \/ ToggleMenu
  \/ MenuEffect

\* The page under entry toggles, with the re-renders that theme and menu
\* toggles cause, and reloads.
SpecDetails == Init /\ [][NextDetails]_vars

---------------------------------------------------------------------------
(* goTo as a function of its argument *)

\* Ids no element of the page has.
MissingIds == {"nonexistent", "top"}

\* Arguments goTo is applied to: every id with and without the leading
\* "#", the empty string, "#" and "##contact".
GoToInputs ==
  {<<t>> : t \in ElementIds \cup MissingIds}
    \cup {<<"#", t>> : t \in ElementIds \cup MissingIds}
    \cup {<<>>, <<"#">>, <<"#", "#", "contact">>}

\* A mounted page at rest.
InitGoTo ==
  /\ storage \in Themes
  /\ theme = storage
  /\ rendered = theme
  /\ lastChoice = "none"
  /\ status = "idle"
  /\ fields = EmptyFields
  /\ data = NoData
  /\ nav = <<>>
  /\ menuOpen = FALSE
  /\ overflow = ""
  /\ mql \in BOOLEAN
  /\ changes = 0
  /\ prefersReduced = mql
  /\ scrollBehavior = ScrollBehaviorFor(mql)
  /\ dom = InitialDom
  /\ site = NoSite
  /\ open = {}
  /\ images = galleryImages
  /\ gallery = Gallery(rendered = "dark", images)
  /\ head = {1}
  /\ ldScript = 1
  /\ pc = "idle"

\* goTo(id) is called.
CallGoTo ==
  /\ pc = "idle"
  /\ \E id \in GoToInputs :
       /\ dom' = GoToResult(dom, id)
       /\ site' = [where |-> "call", href |-> id]
  /\ UNCHANGED <<themeVars, formVars, menuVars, motionVars, open, pc, galleryVars, headVars>>

NextGoTo == CallGoTo

SpecGoTo == InitGoTo /\ [][NextGoTo]_vars

---------------------------------------------------------------------------
(* Gallery as a function of its image list *)

\* A mounted page at rest whose gallery was given any of the image lists.
InitGallery ==
  /\ storage \in Themes
  /\ theme = storage
  /\ rendered = theme
  /\ lastChoice = "none"
  /\ status = "idle"
  /\ fields = EmptyFields
  /\ data = NoData
  /\ nav = <<>>
  /\ menuOpen = FALSE
  /\ overflow = ""
  /\ mql = FALSE
  /\ changes = 0
  /\ prefersReduced = mql
  /\ scrollBehavior = ScrollBehaviorFor(mql)
  /\ dom = InitialDom
  /\ site = NoSite
  /\ open = {}
  /\ images \in ImageLists
  /\ gallery = Gallery(rendered = "dark", images)
  /\ head = {1}
  /\ ldScript = 1
  /\ pc = "idle"

NextGallery ==
  \/ ToggleTheme
  \/ RenderTheme
  \/ ThemeEffect

\* Gallery rendered, and rendered again with each theme, for every list.
SpecGallery == InitGallery /\ [][NextGallery]_vars

---------------------------------------------------------------------------
(* Mounting step by step, and unmounting *)

\* One run of the mount effects: the first one, or the second one of a
\* development build under <StrictMode>.
RunEffects ==
  /\ pc \in {"mount", "strictCleaned"}
  /\ storage' = PersistedValue(theme)
  /\ prefersReduced' = mql
  /\ scrollBehavior' = ScrollBehaviorFor(prefersReduced')
  /\ overflow' = OverflowFor(menuOpen)
  /\ head' = JsonLdRun(head).head
  /\ ldScript' = JsonLdRun(head).s
  /\ pc' = IF pc = "mount" THEN "mounted" ELSE "idle"
  /\ UNCHANGED <<theme, rendered, lastChoice, formVars, menuOpen, mql,
                 changes, dom, site, open, galleryVars>>

\* A production build: the effects have run once and the page is at rest.
MountDone ==
  /\ pc = "mounted"
  /\ pc' = "idle"
  /\ UNCHANGED <<themeVars, formVars, pageVars, galleryVars, headVars>>

\* A development build under <StrictMode>: the cleanups of the first run
\* are called before the effects run again.
StrictCleanup ==
  /\ pc = "mounted"
  /\ scrollBehavior' = "auto"
  /\ overflow' = ""
  /\ head' = JsonLdCleanup([head |-> head, s |-> ldScript]).head
  /\ ldScript' = JsonLdCleanup([head |-> head, s |-> ldScript]).s
  /\ pc' = "strictCleaned"
  /\ UNCHANGED <<themeVars, formVars, menuOpen, mql, changes, prefersReduced,
                 dom, site, open, galleryVars>>

\* The component is unmounted: every effect's cleanup is called.
Unmount ==
  /\ pc = "idle"
  /\ scrollBehavior' = "auto"
  /\ overflow' = ""
  /\ changes' = 0
  /\ head' = JsonLdCleanup([head |-> head, s |-> ldScript]).head
  /\ ldScript' = JsonLdCleanup([head |-> head, s |-> ldScript]).s
  /\ pc' = "unmounted"
  /\ UNCHANGED <<themeVars, formVars, menuOpen, mql, prefersReduced, dom,
                 site, open, galleryVars>>

NextMount ==
  \/ RunEffects
  \/ MountDone
  \/ StrictCleanup
  \/ Unmount
  \/ Reload
  \/ ToggleTheme
  \/ RenderTheme
  \/ ThemeEffect
  \/ ToggleMenu
  \/ MenuEffect
  \/ SignalChange
  \/ ChangeEvent
  \/ MotionEffect

\* The page from its first render through mounting, in either build, the
\* re-renders of theme toggles, menu toggles and changes of the
\* reduced-motion signal, reloads and unmounting.
SpecMount == Init /\ [][NextMount]_vars

---------------------------------------------------------------------------
(* Theme, menu, form and entries side by side *)

\* A complete enquiry.
JaneForm ==
  [EmptyFields EXCEPT !.name = Jane, !.contact = JaneMail,
                      !.type = LegalWedding, !.message = Hello]

\* The same enquiry with the hidden field filled in, as a bot would.
BotForm == [JaneForm EXCEPT !.company = <<"b", "o", "t">>]

\* The same enquiry with a message encodeURIComponent throws on.
BadForm == [JaneForm EXCEPT !.message = <<HS>>]

\* A mounted page at rest whose form the user has left empty or filled in.
InitOwners ==
  /\ storage \in Themes
  /\ theme = storage
  /\ rendered = theme
  /\ lastChoice = "none"
  /\ status = "idle"
  /\ fields \in {EmptyFields, JaneForm, BotForm, BadForm}
  /\ data = NoData
  /\ nav = <<>>
  /\ menuOpen = FALSE
  /\ overflow = ""
  /\ mql = FALSE
  /\ changes = 0
  /\ prefersReduced = mql
  /\ scrollBehavior = ScrollBehaviorFor(mql)
  /\ dom = InitialDom
  /\ site = NoSite
  /\ open = {}
  /\ images = galleryImages
  /\ gallery = Gallery(rendered = "dark", images)
  /\ head = {1}
  /\ ldScript = 1
  /\ pc = "idle"

NextOwners ==
  \/ ToggleTheme
  \/ RenderTheme
  \/ ThemeEffect
  \/ ToggleMenu
  \/ MenuEffect
  \/ ToggleEntry
  \/ Submit
  \/ Honeypot
  \/ Compose
  \/ Succeed
  \/ Catch
  \/ HandOff

\* Theme toggles, menu toggles, submissions and entry toggles in any order.
SpecOwners == InitOwners /\ [][NextOwners]_vars

---------------------------------------------------------------------------

Next ==
  \/ MountEffects
  \/ ToggleTheme
  \/ RenderTheme
  \/ ThemeEffect
  \/ Reload
  \/ EditField
  \/ Submit
  \/ Honeypot
  \/ Compose
  \/ Succeed
  \/ Catch
  \/ HandOff

Spec == Init /\ [][Next]_vars

TypeOK ==
  /\ storage \in StorageValues
  /\ theme \in Themes
  /\ rendered \in Themes
  /\ lastChoice \in Themes \cup {"none"}
  /\ status \in Statuses
  /\ \A f \in FieldNames : fields[f] \in Values[f]
  /\ Len(nav) <= 1
  /\ menuOpen \in BOOLEAN
  /\ overflow \in {"", "hidden"}
  /\ mql \in BOOLEAN
  /\ changes \in 0..MaxPending
  /\ prefersReduced \in BOOLEAN
  /\ scrollBehavior \in {"", "smooth", "auto"}
  /\ dom.scrollTarget \in ElementIds \cup {NoElement}
  /\ dom.focused \in ElementIds \cup {NoElement}
  /\ dom.tabindexed \subseteq ElementIds
  /\ open \subseteq Entries
  /\ images \in ImageLists \cup {galleryImages}
  /\ gallery = Gallery(rendered = "dark", images)
  /\ head \subseteq 1..2
  /\ ldScript \in 0..2
  /\ pc \in {"mount", "idle", "render", "effects", "submit", "try",
             "dispatched", "catch", "handoff", "menuEffect", "goTo",
             "motionEffect", "mounted", "strictCleaned", "unmounted"}

---------------------------------------------------------------------------
(* The link as a mail client reads it (RFC 6068): after "?" the header     *)
(* fields are separated by "&", each is name "=" value, and the value is   *)
(* percent-decoded.                                                        *)

\* The pieces of s between occurrences of sep.
SplitAt(s, sep) ==
  LET seps == {i \in DOMAIN s : s[i] = sep}
      n == Cardinality(seps)
      Pos(k) == IF k = 0 THEN 0
                ELSE IF k = n + 1 THEN Len(s) + 1
                ELSE CHOOSE i \in seps : Cardinality({j \in seps : j <= i}) = k
  IN  [k \in 1..(n + 1) |-> SubSeq(s, Pos(k - 1) + 1, Pos(k) - 1)]

Unescapes ==
  ("%20" :> " ") @@ ("%26" :> "&") @@ ("%3D" :> "=") @@ ("%25" :> "%") @@
  ("%3F" :> "?") @@ ("%23" :> "#") @@ ("%40" :> "@") @@ ("%0A" :> "\n") @@
  ("%EF%BF%BD" :> RC)

PercentDecode(s) ==
  [i \in DOMAIN s |-> IF s[i] \in DOMAIN Unescapes THEN Unescapes[s[i]] ELSE s[i]]

HeaderFields(link) == SplitAt(SubSeq(link, 4, Len(link)), "&")

\* The decoded value of header field h, <<"<none>">> when the link has no
\* such field.
Header(link, h) ==
  LET hs == HeaderFields(link)
      is == {i \in DOMAIN hs : Len(hs[i]) >= 2 /\ hs[i][1] = h /\ hs[i][2] = "="}
  IN  IF is = {} THEN <<"<none>">>
      ELSE LET i == CHOOSE j \in is : \A k \in is : j <= k
           IN  PercentDecode(SubSeq(hs[i], 3, Len(hs[i])))

\* How often piece c occurs in s.
Count(s, c) == Cardinality({i \in DOMAIN s : s[i] = c})

RequiredFields == {"name", "contact", "type", "message"}

MailFields == {"name", "contact", "type", "date", "message"}

HasLoneSurrogate(d) == \E f \in MailFields : \E i \in DOMAIN d[f] : d[f][i] = HS

---------------------------------------------------------------------------
(* Claims *)

\* The moves of the form status the state machine allows.
StatusMove(a, b) ==
  \/ a = b
  \/ a \in {"idle", "ok", "error"} /\ b = "sending"
  \/ a = "sending" /\ b \in {"ok", "error"}

\* C1: within one page load the form status only moves idle -> sending,
\* sending -> ok, sending -> error, ok -> sending and error -> sending;
\* it changes only inside the submit handler and never returns to idle.
\* (A reload builds a new form, which starts in idle.)
C1_StatusMachine ==
  [][pc' # "mount" =>
       /\ StatusMove(status, status')
       /\ (status' # status => pc \in {"submit", "dispatched", "catch"})]_vars

\* A resubmission has failed: the status is error and the handler is done.
C1_Witness == status = "error" /\ pc = "idle" /\ fields.name = Jane

\* C2: a submit with the honeypot field `company` non-empty changes
\* nothing: the status (idle, ok or error) stays, no navigation is
\* requested, the fields keep their values and the handler returns.
C2_HoneypotNoEffect ==
  [][pc = "submit" /\ fields.company # <<>> =>
       /\ status' = status
       /\ nav' = nav
       /\ fields' = fields
       /\ pc' = "idle"]_vars

\* The handler is at its honeypot check with the honeypot filled, after an
\* earlier submission had succeeded and the form had been filled again.
C2_Witness ==
  /\ pc = "submit"
  /\ fields.company # <<>>
  /\ status = "ok"
  /\ fields.name = Jane

\* C3: a submission with an empty honeypot in which nothing throws goes on
\* to dispatch, sets the status to ok and clears every field, and that is
\* how the form is left when the handler has returned.
C3_SuccessClears ==
  [][/\ (pc = "submit" /\ fields.company = <<>> => pc' = "try")
     /\ (pc = "try" /\ ~HasLoneSurrogate(data) => pc' = "dispatched")
     /\ (pc = "dispatched" =>
           status' = "ok" /\ fields' = EmptyFields /\ pc' = "handoff")
     /\ (pc = "handoff" =>
           status' = "ok" /\ fields' = EmptyFields /\ pc' = "idle")]_vars

\* The handler has returned from a submission of Jane's enquiry: the link
\* is out, the status is ok and the fields are empty.
C3_Witness ==
  /\ pc = "handoff"
  /\ status = "ok"
  /\ fields = EmptyFields
  /\ Len(nav) = 1
  /\ Header(nav[1], "subject") = <<"Enquiry from ">> \o Jane

\* C4: the dispatched link is mailto:westcoastcelebrants@gmail.com with
\* exactly the header fields subject and body; read by a mail client the
\* subject is "Enquiry from <name>" and the body is "Contact: <contact>",
\* "Type: <type>", "Date: <date>", an empty line and "<message>", one per
\* line; no reserved character of a value appears raw in the link.
C4_LinkFormat ==
  pc = "dispatched" =>
    LET link == nav[Len(nav)]
    IN  /\ SubSeq(link, 1, 3) = <<"mailto:", Address, "?">>
        /\ Len(HeaderFields(link)) = 2
        /\ Header(link, "subject") = <<"Enquiry from ">> \o data.name
        /\ Header(link, "body") =
             <<"Contact: ">> \o data.contact
               \o <<"\n", "Type: ">> \o data.type
               \o <<"\n", "Date: ">> \o data.date
               \o <<"\n", "\n">> \o data.message
        /\ Count(link, "&") = 1
        /\ Count(link, "=") = 2
        /\ Count(link, "?") = 1
        /\ \A c \in {" ", "#", "%", "@", "\n", RC} : Count(link, c) = 0

\* A link has been dispatched for a submission whose name is made of
\* reserved characters and whose message is "&".
C4_Witness ==
  /\ pc = "dispatched"
  /\ data.name = OddName
  /\ data.contact = JaneMail
  /\ data.type = LegalWedding
  /\ data.message = <<"&">>

\* C5: when encoding a field value throws, nothing is dispatched and the
\* submission ends with the status error: the catch block sets error and
\* the handler returns, so the status is neither ok nor left in sending.
C5_ExceptionGivesError ==
  [][/\ (pc = "try" /\ HasLoneSurrogate(data) => pc' = "catch" /\ nav' = nav)
     /\ (pc = "catch" => status' = "error" /\ pc' = "idle")
     /\ (pc' = "idle" => status' # "sending")]_vars

\* The handler is in its catch block: a value with a lone surrogate made
\* encodeURIComponent throw.
C5_Witness == pc = "catch" /\ HasLoneSurrogate(data) /\ status = "sending"

\* C6 (as claimed): a submission is dispatched only when name, contact
\* method, ceremony type and message are all non-empty.
C6_RequiredFieldsValidated ==
  pc = "dispatched" => \A f \in RequiredFields : data[f] # <<>>

\* C7: the status becomes ok only when the running submission has
\* dispatched exactly one link, a mailto link to the contact address.
C7_OkAfterDispatch ==
  [][status' = "ok" /\ status # "ok" =>
       /\ Len(nav) = 1
       /\ SubSeq(nav[1], 1, 2) = <<"mailto:", Address>>
       /\ nav' = nav]_vars

\* The status has just become ok and the one link of the submission is
\* still waiting to be handed to the mail client.
C7_Witness == pc = "handoff" /\ status = "ok" /\ Len(nav) = 1

\* C8: right after initialization (before any effect has run) the theme
\* is dark exactly when the slot holds "dark", and light otherwise.
C8_InitialTheme ==
  pc = "mount" =>
    /\ (storage = "dark" => theme = "dark")
    /\ (storage # "dark" => theme = "light")

\* The page has initialized from a slot holding a value that is neither
\* "light" nor "dark".
C8_Witness == pc = "mount" /\ storage = "Dark" /\ theme = "light"

\* C9 (as claimed): whenever the page is rendered with the theme the user
\* last chose, the slot already holds that theme.
C9_PersistBeforeRender ==
  (lastChoice # "none" /\ rendered = lastChoice) => storage = lastChoice

\* C9 (amended): the slot is written only after the page has been
\* re-rendered with the new theme, with that theme, and the write is done
\* by the time the page is idle again after a toggle.
C9_PersistAfterRender ==
  [][/\ (storage' # storage => rendered = theme /\ storage' = theme)
     /\ (pc' = "idle" /\ lastChoice' # "none" =>
           storage' = rendered' /\ rendered' = theme')]_vars

\* The page has been re-rendered dark after a toggle and the persist
\* effect is about to run: the slot still holds light.
C9_Witness ==
  /\ pc = "effects"
  /\ rendered = "dark"
  /\ lastChoice = "dark"
  /\ storage = "light"

\* C10: after toggles and a reload the page initializes with the theme
\* the user last chose.
C10_ThemeSurvivesReload ==
  (pc = "mount" /\ lastChoice # "none") => theme = lastChoice

\* The page has reloaded after the user chose dark.
C10_Witness == pc = "mount" /\ lastChoice = "dark" /\ theme = "dark"

---------------------------------------------------------------------------
(* Claims about navigation, the menu, reduced motion and the entries *)

\* C11: for every section id, goTo(id) and goTo("#" + id) give the same
\* document state: the section is the scroll target, it has a tabindex and
\* the focus, and the location fragment is untouched.
C11_HashPrefixEquivalent ==
  \A t \in SectionIds :
    LET plain  == GoToResult(dom, <<t>>)
        hashed == GoToResult(dom, <<"#", t>>)
    IN  /\ plain = hashed
        /\ hashed.scrollTarget = t
        /\ hashed.focused = t
        /\ t \in hashed.tabindexed
        /\ hashed.hash = dom.hash

\* goTo("contact"), without the "#", has scrolled to and focused the
\* contact section.
C11_Witness ==
  /\ site.href = <<"contact">>
  /\ dom.scrollTarget = "contact"
  /\ dom.focused = "contact"

\* C12: goTo with an id no element has changes the location fragment to
\* that id and nothing else: scroll target, focus and tabindex attributes
\* are as before.
C12_MissingOnlyFragment ==
  \A id \in GoToInputs :
    LET name == IF id # <<>> /\ id[1] = "#" THEN Tail(id) ELSE id
        r == GoToResult(dom, id)
    IN  ~(Len(name) = 1 /\ name[1] \in ElementIds) =>
          /\ r.hash = name
          /\ r.scrollTarget = dom.scrollTarget
          /\ r.scrollMode = dom.scrollMode
          /\ r.focused = dom.focused
          /\ r.tabindexed = dom.tabindexed

\* goTo("nonexistent") has been called after the contact section had been
\* focused: the fragment is set and the focus is still on contact.
C12_Witness ==
  /\ site.href = <<"nonexistent">>
  /\ dom.hash = <<"nonexistent">>
  /\ dom.focused = "contact"
  /\ dom.scrollTarget = "contact"

\* C13 (as claimed): a goTo on an existing section requests a smooth
\* scroll exactly when the reduced-motion flag is false at the call.
C13_ReducedMotionJumps ==
  (pc = "goTo" /\ GetElementById(StripHash(site.href)) # NoElement) =>
    LET requested == GoToResult(dom, site.href).scrollMode
    IN  (requested = "smooth") <=> ~prefersReduced

C15_ScrollLockFollowsMenu ==
  [][/\ (pc = "idle" /\ pc' = "menuEffect" => menuOpen' = ~menuOpen)
     /\ (pc' = "idle" => (overflow' = "hidden" <=> menuOpen'))
     /\ (pc' = "idle" => (overflow' = "" <=> ~menuOpen'))]_vars

\* The menu has just been closed while scrolling is still locked: the
\* overflow effect is about to restore it.
C15_Witness ==
  /\ pc = "menuEffect"
  /\ ~menuOpen
  /\ overflow = "hidden"

\* C16: the handler of a link of the mobile menu calls goTo with the
\* link's anchor (the section becomes scroll target and focus) and closes
\* the menu, and the re-render that follows leaves it closed.
C16_MenuLinkCloses ==
  [][/\ (pc = "goTo" /\ site.where = "menu" =>
           /\ site.href[1] = "#"
           /\ dom'.scrollTarget = site.href[2]
           /\ dom'.focused = site.href[2]
           /\ menuOpen
           /\ menuOpen' = FALSE
           /\ pc' = "menuEffect")
     /\ (pc = "menuEffect" => menuOpen' = menuOpen)]_vars

\* The handler of the menu's Contact link is running with the menu open.
C16_Witness ==
  /\ pc = "goTo"
  /\ site = [where |-> "menu", href |-> <<"#", "contact">>]
  /\ menuOpen

\* C17 (as claimed): every in-page navigation performed while the menu is
\* open leaves the menu closed.
C17_NavigationClosesMenu ==
  [][pc = "goTo" /\ menuOpen => menuOpen' = FALSE]_vars

\* The two sides of open and open' that differ.
Changed(a, b) == (a \ b) \cup (b \ a)

\* C18: within a page load a step changes the state of at most one entry
\* (toggling one entry leaves every other entry as it was), re-renders
\* change none, and any set of entries can be open together.
C18_EntriesIndependent ==
  [][pc' # "mount" =>
       /\ Cardinality(Changed(open, open')) <= 1
       /\ (pc # "idle" => open' = open)]_vars

\* Every entry is open at the same time.
C18_Witness == pc = "idle" /\ open = Entries /\ Cardinality(open) >= 2

\* C19: every entry is closed when the page has loaded, and two toggles of
\* an entry restore its state, so a closed entry is closed again.
C19_ClosedInitiallyAndInvolutive ==
  /\ pc = "mount" => open = {}
  /\ \A e \in Entries :
       /\ DetailsToggle(DetailsToggle(open, e), e) = open
       /\ (e \in open) # (e \in DetailsToggle(open, e))

\* The page has been loaded again after the user had used it.
C19_Witness == pc = "mount" /\ lastChoice # "none" /\ open = {}

\* The section ids the page's anchors are fixed to.
FixedSectionIds ==
  {"home", "about", "services", "gallery", "how-it-works", "weddings",
   "vow-renewals", "naming", "celebration-of-life", "your-funeral", "faq",
   "privacy", "contact"}

\* C20: the string every link or button of the page passes to goTo is "#"
\* followed by one of the fixed section ids, a section with that id is
\* rendered, and so no navigation ever falls back to the fragment.
C20_TargetsResolve ==
  /\ site # NoSite =>
       /\ Len(site.href) = 2
       /\ site.href[1] = "#"
       /\ site.href[2] \in FixedSectionIds
       /\ GetElementById(<<site.href[2]>>) \in SectionIds
  /\ dom.hash = <<>>

\* The Naming Ceremonies entry of the divider list has been clicked: its
\* key finds no card, so the fallback target is used.
C20_Witness ==
  /\ pc = "goTo"
  /\ site = [where |-> "list", href |-> <<"#", "services">>]

\* The attributes of a link that do not depend on the theme.
LinkOf(a) == [href |-> a.href, target |-> a.target, rel |-> a.rel, img |-> a.img]

\* C21: the gallery is one link per image of the list, in order; each link
\* goes to its image's own source and opens in a new browsing context; the
\* image is rendered with width 640 when the list gives none and height 480
\* when it gives none, and with the supplied value otherwise; and the links
\* are determined by the list alone (the theme changes only their colours).
C21_GalleryOfList ==
  /\ DOMAIN gallery = DOMAIN images
  /\ \A i \in DOMAIN images :
       /\ gallery[i].href = images[i].src
       /\ gallery[i].target = "_blank"
       /\ gallery[i].img.src = images[i].src
       /\ gallery[i].img.width =
            (IF "w" \in DOMAIN images[i] THEN images[i].w ELSE 640)
       /\ gallery[i].img.height =
            (IF "h" \in DOMAIN images[i] THEN images[i].h ELSE 480)
       /\ \A isDark \in BOOLEAN :
            LinkOf(Gallery(isDark, images)[i]) = LinkOf(gallery[i])

\* The gallery has been rendered again, in the dark theme, for a list whose
\* first image has no width and whose second one supplies width 0.
C21_Witness ==
  /\ pc = "idle"
  /\ rendered = "dark"
  /\ lastChoice = "dark"
  /\ Len(images) = 2
  /\ "w" \notin DOMAIN images[1]
  /\ "h" \in DOMAIN images[1]
  /\ gallery[1].img.width = 640
  /\ gallery[1].img.height = 600
  /\ "w" \in DOMAIN images[2]
  /\ gallery[2].img.width = 0

\* C22: once the mount effects have run, and for as long as the page is
\* mounted, the head holds exactly one JSON-LD script of the page, the one
\* the live effect holds, also after a run, a cleanup and a second run;
\* before the effects run and after a cleanup or an unmount it holds none.
C22_OneJsonLdScript ==
  /\ pc \in {"mounted", "idle", "render", "effects", "menuEffect",
             "motionEffect"} =>
       (Cardinality(head) = 1 /\ head = {ldScript})
  /\ pc \in {"mount", "strictCleaned", "unmounted"} => head = {}

\* The effect has run and has been cleaned up, and is about to run again.
C22_Witness ==
  /\ pc = "strictCleaned"
  /\ head = {}
  /\ ldScript = 0
  /\ storage = theme

\* A step of a theme toggle: the click, the re-render or the persist effect.
ThemeOp == (pc = "idle" /\ pc' = "render") \/ pc \in {"render", "effects"}

\* A step of a menu toggle: the click or the overflow effect.
MenuOp == (pc = "idle" /\ pc' = "menuEffect") \/ pc = "menuEffect"

\* A step of a submission, from the submit event to the hand-off.
FormOp ==
  \/ pc = "idle" /\ pc' = "submit"
  \/ pc \in {"submit", "try", "dispatched", "catch", "handoff"}

\* A toggle of an expandable entry.
EntryOp == pc = "idle" /\ open' # open

\* C23: a theme toggle leaves menu-open, form status and the entries as
\* they were; a menu toggle leaves theme, form status and entries; a
\* submission leaves theme, menu-open and entries; an entry toggle leaves
\* theme, menu-open and form status; and each of theme, menu-open and form
\* status changes only in a step of its own operation.
C23_OwnOperationsOnly ==
  [][/\ ThemeOp => UNCHANGED <<menuOpen, status, open>>
     /\ MenuOp => UNCHANGED <<theme, rendered, status, open>>
     /\ FormOp => UNCHANGED <<theme, rendered, menuOpen, open>>
     /\ EntryOp => UNCHANGED <<theme, rendered, menuOpen, status>>
     /\ (theme' # theme \/ rendered' # rendered) => ThemeOp
     /\ menuOpen' # menuOpen => MenuOp
     /\ status' # status => FormOp]_vars

\* Each of the four has been used: the theme is dark, the menu is open, an
\* entry is open and a submission has been handed off.
C23_Witness ==
  /\ pc = "idle"
  /\ rendered = "dark"
  /\ lastChoice = "dark"
  /\ menuOpen
  /\ overflow = "hidden"
  /\ open # {}
  /\ status = "ok"

\* The card of the service a list label names: the labels are the card
\* titles, in the same order, the last one with " Ceremonies" added.
CardFor(label) ==
  IF label = <<"Celebration of Life", " Ceremonies">>
    THEN <<"Celebration of Life">>
    ELSE label

\* C24: when the click handler of an entry of the services divider list
\* runs, the target it passes to goTo is the target of the card of the
\* same service.
C24_ListMatchesCards ==
  (pc = "goTo" /\ site.where = "list") =>
    \E label \in ListLabels :
      /\ site.href = ServiceHref(ListKey(label))
      /\ site.href = ServiceHref(CardFor(label))

\* The positions of the submit handler after setStatus("sending").
InHandler == {"try", "dispatched", "catch"}

\* C25: the status is `sending` only inside the submit handler; when the
\* handler returns from a submission that entered `sending`, the status is
\* `ok` or `error`; so between user events the status is not `sending` and
\* the submit button is enabled.
C25_SendingTransient ==
  /\ [](status = "sending" => pc \in InHandler)
  /\ [](pc = "idle" => status # "sending")
  /\ [][(pc \in InHandler /\ pc' \notin InHandler) =>
          (status = "sending" /\ status' \in {"ok", "error"})]_vars

\* The link has been dispatched and the status is still `sending`.
C25_Witness ==
  /\ pc = "dispatched"
  /\ status = "sending"
  /\ Len(nav) = 1
  /\ fields.name = OddName

\* C26: the status becomes `error` only in the catch block, which is
\* entered only from the composition of the link, before anything was
\* dispatched and before `ok` was set; a submission that ends there changes
\* no field; and after the dispatch the submission ends in `ok`, never in
\* `error`.
C26_ErrorKeepsInput ==
  [][/\ (status' = "error" /\ status # "error") => pc = "catch"
     /\ pc' = "catch" => (pc = "try" /\ nav' = <<>>)
     /\ pc = "catch" =>
          /\ status = "sending"
          /\ nav = <<>> /\ nav' = <<>>
          /\ status' = "error"
          /\ pc' = "idle"
     /\ pc \in {"submit", "try", "catch"} => fields' = fields
     /\ pc = "dispatched" => (status' = "ok" /\ pc' = "handoff")
     /\ ~(status = "ok" /\ status' = "error")
     /\ ~(status = "error" /\ status' = "ok")]_vars

\* A submission has ended in `error`: nothing waits to be handed off and
\* the form still holds what the user entered.
C26_Witness ==
  /\ pc = "idle"
  /\ status = "error"
  /\ nav = <<>>
  /\ fields.contact = JaneMail
  /\ fields.message = <<HS>>

\* C27: the theme is always light or dark; whenever the persist effect has
\* run (the page is past its mount effects and no re-render is pending)
\* the slot holds the current theme; the first effect run replaces an
\* absent or invalid value by light; and every write to the slot writes
\* light or dark.
C27_SlotHoldsTheme ==
  /\ [](theme \in Themes)
  /\ [](pc \notin {"mount", "render", "effects"} => storage = theme)
  /\ [][/\ (pc = "mount" /\ pc' = "idle" /\ storage \notin Themes) =>
             storage' = "light"
        /\ storage' # storage => storage' \in Themes]_vars

\* The user went to dark and back to light, and the slot followed.
C27_Witness ==
  /\ pc = "idle"
  /\ lastChoice = "light"
  /\ theme = "light"
  /\ storage = "light"

====
